---- MODULE Spec2Model ----
(***************************************************************************)
(* A model of aggrbot (src/main.py): a one-shot script that fetches the    *)
(* last day's posts of a list of Telegram channels plus one "summary" post *)
(* of the channel "kpszsu", stores them in <save_dir>/<today>/messages.json*)
(* and optionally hands the record to a language model.                    *)
(*                                                                         *)
(* Four entry points of the file are modelled, chosen by `entry`:          *)
(*   "script"                 the `if __name__ == "__main__":` block       *)
(*   "main"                   a call of the coroutine main(...)            *)
(*   "fetch_summary_message"  a call of fetch_summary_message(client)      *)
(*   "process_data"           a call of process_data(data, save_dir)       *)
(* The Telegram client, the OpenAI client and the file system are          *)
(* collaborators: what they return is an input, drawn from small sets.     *)
(* The calendar day is taken to be the same for the whole run.             *)
(***************************************************************************)
EXTENDS Integers, Sequences, FiniteSets, TLC

VARIABLES
    entry,            \* which entry point this run exercises
    pc,               \* position of the main thread of control
    err,              \* the exception that ended the main thread, or NoErr
    argv,             \* command line: [api_id, api_hash, openai_key, prompt_flag, add_channels, refresh, openai_processing]
    environ,          \* os.environ: [TELEGRAM_API_ID, TELEGRAM_API_HASH, OPENAI_API_KEY]
    creds,            \* the script's api_id, api_hash, openai_key
    openai_api_key,   \* the module global openai.api_key
    clientCreated,    \* TelegramClient("aggrbot", ...) has been constructed
    all_channels,     \* main's channel list
    refresh,          \* main's refresh argument
    openai_step,      \* main's openai_step argument
    saveDirExists,    \* <save_dir> is a directory
    dayDirExists,     \* <save_dir>/<today> is a directory
    messagesFile,     \* content of <save_dir>/<today>/messages.json, or Absent
    filteredFile,     \* content of <save_dir>/<today>/openai-filtered.json, or Absent
    messagesFile0,    \* messagesFile when the run started
    filteredFile0,    \* filteredFile when the run started
    kpszsu,           \* history of the channel "kpszsu", newest first
    summary_message,  \* main's local, also fetch_summary_message's result
    channels_data,    \* main's local dict, as a sequence of <<key, value>> in insertion order
    idx,              \* position of the for loop in all_channels
    data,             \* main's local data
    sessionOpen,      \* inside `async with client`
    sessionOpened,    \* the client was connected at least once in this run
    inflight,         \* number of collaborator requests awaiting an answer
    callLog,          \* the fetch calls made so far, in order
    fetched,          \* what each fetch_messages call returned, in call order
    wpc,              \* position of the executor's worker thread
    wargs,            \* positional arguments the executor passes to process_data
    werr,             \* the exception stored in the executor's future, or NoErr
    lmLog             \* payloads sent to the language model

scriptVars == <<argv, environ, creds, openai_api_key, clientCreated>>
mainArgs == <<all_channels, refresh, openai_step>>
fsVars == <<saveDirExists, dayDirExists, messagesFile, filteredFile>>
histVars == <<messagesFile0, filteredFile0>>
localVars == <<summary_message, channels_data, idx, data>>
netVars == <<sessionOpen, sessionOpened, inflight, callLog, fetched>>
workerVars == <<wpc, wargs, werr, lmLog>>
vars == <<entry, pc, err, scriptVars, mainArgs, fsVars, histVars, kpszsu,
          localVars, netVars, workerVars>>

----------------------------------------------------------------------------
(* Bounds of the model. *)

\* longest channel list handed to main
MaxChannels == 3
\* number of freely chosen messages behind the padding of a "kpszsu" history
MaxTail == 2

(* Program constants. *)

\* iter_messages("kpszsu", limit=200)
SummaryLimit == 200
\* process_data(data, save_dir) takes two positional arguments
ProcessDataArity == 2

----------------------------------------------------------------------------
(* Python values. *)

\* None, where the other values are records
None == [none |-> TRUE]
\* None, where the other values are strings (argparse, os.getenv)
NoneStr == "None"
\* None, where the other values are texts (sequences of characters)
NoneText == <<"None">>
\* a path at which no file exists
Absent == [absent |-> TRUE]
NoErr == "none"

\* truth value of an argparse/os.getenv result
TruthyStr(s) == s # NoneStr /\ s # ""
\* truth value of message.text
TruthyText(t) == t # NoneText /\ t # <<>>
\* Python's `a or b` on strings
PyOr(a, b) == IF TruthyStr(a) THEN a ELSE b

\* str.lower() on the characters of the model's alphabet
LowerChar(c) ==
    CASE c = "Z" -> "z"
      [] c = "B" -> "b"
      [] c = "Y" -> "y"
      [] c = "T" -> "t"
      [] c = "O" -> "o"
      [] OTHER -> c
lower(t) == [i \in 1..Len(t) |-> LowerChar(t[i])]

\* Python's `sub in s` on strings
Contains(sub, s) ==
    \E i \in 0..(Len(s) - Len(sub)) : SubSeq(s, i + 1, i + Len(sub)) = sub

\* the marker of line 38 (transliterated) and the symbol of line 39 (as "-")
Marker == <<"z", "b", "y", "t", "o">>
Symbol == <<"-">>

\* date.strftime("%d.%m.%y %H:%M:%S"): the fields of the formatted string
strftime(d) == <<d.day, d.month, d.year % 100, d.hour, d.minute, d.second>>

----------------------------------------------------------------------------
(* The pure parts of the program. *)

\* lines 35-40 without the .lower() of line 38
SummaryPredicateCaseSensitive(m) ==
    /\ TruthyText(m.text)
    /\ m.photo
    /\ Contains(Marker, m.text)
    /\ Contains(Symbol, m.text)

\* the condition of lines 35-40
SummaryPredicate(m) ==
    /\ TruthyText(m.text)
    /\ m.photo
    /\ Contains(Marker, lower(m.text))
    /\ Contains(Symbol, m.text)

\* the dictionary built at lines 23-27 and 41-45
Reduce(m) == [id |-> m.id, date |-> strftime(m.date), text |-> m.text]

\* what client.iter_messages("kpszsu", limit=n) yields: the n newest, newest first
IterLimit(history, n) ==
    SubSeq(history, 1, IF Len(history) < n THEN Len(history) ELSE n)

\* the loop of lines 34-46 over the yielded messages: the first message, in
\* the order yielded, that passes the condition is returned
ScanSummary(yielded) ==
    LET hits == {i \in 1..Len(yielded) : SummaryPredicate(yielded[i])}
    IN  IF hits = {} THEN None
        ELSE Reduce(yielded[CHOOSE i \in hits : \A j \in hits : i <= j])

fetch_summary_message(history) ==
    ScanSummary(IterLimit(history, SummaryLimit))

\* lines 17-29 over the messages `raw` that iter_messages(channel,
\* reverse=True, offset_date=since_time) yields
fetch_messages(raw) ==
    LET kept == SelectSeq(raw, LAMBDA m : TruthyText(m.text))
    IN  [i \in 1..Len(kept) |-> Reduce(kept[i])]

\* a dict is a sequence of <<key, value>> in insertion order
DictKeys(d) == [i \in 1..Len(d) |-> d[i][1]]
DictHas(d, k) == \E i \in 1..Len(d) : d[i][1] = k
DictGet(d, k) == d[CHOOSE i \in 1..Len(d) : d[i][1] = k][2]
\* a list of pairs in place of the dict of line 117: every store appends
DictSetAppend(d, k, v) == Append(d, <<k, v>>)

\* d[k] = v: an existing key keeps its place
DictSet(d, k, v) ==
    IF DictHas(d, k)
    THEN [i \in 1..Len(d) |-> IF d[i][1] = k THEN <<k, v>> ELSE d[i]]
    ELSE Append(d, <<k, v>>)

\* json.dump writes a document; json.load reads the value back
json_dump(value) == [json |-> value]
json_load(file) == file.json

\* line 112 without `or refresh`
NeedFetchIgnoringRefresh == messagesFile = Absent
\* line 112 without the test for today's file
NeedFetchAlways == TRUE

\* the condition of line 112
NeedFetch == (messagesFile = Absent) \/ refresh

\* the attributes of the namespace parse_args returns (lines 145-180)
Namespace ==
    {"api_id", "api_hash", "openai_key", "save_dir", "openai_processing",
     "add_channels", "refresh"}

\* lines 190-192
GetCredential(cli, env) == PyOr(cli, env)
\* line 195 without `or not openai_key`
CredentialsMissingTelegramOnly(c) ==
    ~TruthyStr(c.api_id) \/ ~TruthyStr(c.api_hash)

\* the condition of line 195
CredentialsMissing(c) ==
    ~TruthyStr(c.api_id) \/ ~TruthyStr(c.api_hash) \/ ~TruthyStr(c.openai_key)

\* lines 204-216
default_channels ==
    <<"vanek_nikolaev", "monitor_ukr", "war_monitor", "monitorwarr",
      "dsns_telegram", "dsns_kyiv_region", "gu_dsns_zp", "dsns_sumy",
      "dsns_mykolaiv", "dsns_lviv", "dsns_kherson">>

----------------------------------------------------------------------------
(* The inputs. *)

T_title == <<"Z", "b", "y", "t", "o", " ", "-">>
T_lower == <<"z", "b", "y", "t", "o", "-">>
T_nosymbol == <<"Z", "B", "Y", "T", "O">>
T_nomarker == <<"-", "x">>

DateOf(i) ==
    [year |-> 1999 + 25 * (i % 3), month |-> 1 + (i % 12), day |-> 1 + (i % 28),
     hour |-> i % 24, minute |-> i % 60, second |-> (7 * i) % 60]

Msg(i, kind) ==
    [id |-> i, date |-> DateOf(i), text |-> kind.text, photo |-> kind.photo]

Kind(t, p) == [text |-> t, photo |-> p]
TailKinds ==
    {Kind(T_title, TRUE), Kind(T_lower, TRUE), Kind(T_title, FALSE),
     Kind(T_nosymbol, TRUE), Kind(T_nomarker, TRUE), Kind(<<>>, TRUE),
     Kind(NoneText, TRUE)}
\* the padding: posts with the marker and the symbol but no photo
PadKind == Kind(T_lower, FALSE)

\* a history of "kpszsu", newest first: `pad` padding posts, then `tail`
History(pad, tail) ==
    LET n == pad + Len(tail)
    IN  [p \in 1..n |->
            Msg(n - p + 1, IF p <= pad THEN PadKind ELSE tail[p - pad])]

PadLens == {0, SummaryLimit - 1, SummaryLimit}
Tails == UNION {[1..n -> TailKinds] : n \in 0..MaxTail}
Histories == {History(p, t) : p \in PadLens, t \in Tails}
MainHistories ==
    {History(0, <<Kind(T_nosymbol, TRUE)>>),
     History(1, <<Kind(T_title, TRUE), Kind(T_lower, TRUE)>>)}

ChannelNames == {"c1", "c2"}
ChannelLists == UNION {[1..n -> ChannelNames] : n \in 0..MaxChannels}

\* what iter_messages can yield for one channel
RawResults ==
    {<<>>,
     <<Msg(1, Kind(NoneText, TRUE)), Msg(2, Kind(<<>>, FALSE))>>,
     <<Msg(3, Kind(<<>>, TRUE)), Msg(4, Kind(T_nomarker, FALSE))>>}

\* records a previous run left in messages.json
OldRecords ==
    {[summary |-> None, channels |-> << <<"c0", <<>> >> >>],
     [summary |-> Reduce(Msg(9, Kind(T_title, TRUE))),
      channels |-> << <<"c0", <<Reduce(Msg(8, Kind(T_nomarker, FALSE)))>> >> >>]}
OldFiltered == json_dump("r0")
Responses == {"r1", "r2"}
SaveDir == "reports"

\* the states of the file system a run can start in
FSStates ==
    {[save |-> FALSE, day |-> FALSE, msgs |-> Absent, filt |-> Absent],
     [save |-> TRUE, day |-> FALSE, msgs |-> Absent, filt |-> Absent]}
    \cup {[save |-> TRUE, day |-> TRUE, msgs |-> m, filt |-> f] :
            m \in {Absent} \cup {json_dump(r) : r \in OldRecords},
            f \in {Absent, OldFiltered}}

CliVals == {NoneStr, "", "cli"}
EnvVals == {NoneStr, "env"}
ArgvSet ==
    [api_id : CliVals, api_hash : CliVals, openai_key : CliVals,
     prompt_flag : BOOLEAN, add_channels : {<<>>, <<"c1", "monitor_ukr">>},
     refresh : BOOLEAN, openai_processing : BOOLEAN]
EnvSet ==
    [TELEGRAM_API_ID : EnvVals, TELEGRAM_API_HASH : EnvVals,
     OPENAI_API_KEY : EnvVals]
NoCreds == [api_id |-> NoneStr, api_hash |-> NoneStr, openai_key |-> NoneStr]

----------------------------------------------------------------------------
(* The initial states. *)

InitCommon ==
    /\ err = NoErr
    /\ creds = NoCreds
    /\ openai_api_key = NoneStr
    /\ clientCreated = FALSE
    /\ messagesFile0 = messagesFile
    /\ filteredFile0 = filteredFile
    /\ summary_message = None
    /\ channels_data = <<>>
    /\ idx = 1
    /\ data = None
    /\ sessionOpen = FALSE
    /\ sessionOpened = FALSE
    /\ inflight = 0
    /\ callLog = <<>>
    /\ fetched = <<>>
    /\ werr = NoErr
    /\ lmLog = <<>>

InitFS ==
    \E fs \in FSStates :
        /\ saveDirExists = fs.save
        /\ dayDirExists = fs.day
        /\ messagesFile = fs.msgs
        /\ filteredFile = fs.filt

NoArgv ==
    [api_id |-> NoneStr, api_hash |-> NoneStr, openai_key |-> NoneStr,
     prompt_flag |-> FALSE, add_channels |-> <<>>, refresh |-> FALSE,
     openai_processing |-> FALSE]
NoEnv ==
    [TELEGRAM_API_ID |-> NoneStr, TELEGRAM_API_HASH |-> NoneStr,
     OPENAI_API_KEY |-> NoneStr]

\* python main.py <argv>, before line 185
InitScript ==
    /\ entry = "script"
    /\ pc = "s_parse"
    /\ argv \in ArgvSet
    /\ environ \in EnvSet
    /\ all_channels = <<>>
    /\ refresh = FALSE
    /\ openai_step = FALSE
    /\ saveDirExists = TRUE
    /\ dayDirExists \in BOOLEAN
    /\ messagesFile = Absent
    /\ filteredFile = Absent
    /\ kpszsu = <<>>
    /\ wpc = "idle"
    /\ wargs = <<>>

\* main(client, all_channels, prompt, save_dir, refresh, openai_step)
InitMain ==
    /\ entry = "main"
    /\ pc = "m_start"
    /\ argv = NoArgv
    /\ environ = NoEnv
    /\ all_channels \in ChannelLists
    /\ refresh \in BOOLEAN
    /\ openai_step \in BOOLEAN
    /\ InitFS
    /\ kpszsu \in MainHistories
    /\ wpc = "idle"
    /\ wargs = <<>>

\* fetch_summary_message(client)
InitFetchSummary ==
    /\ entry = "fetch_summary_message"
    /\ pc = "f_call"
    /\ argv = NoArgv
    /\ environ = NoEnv
    /\ all_channels = <<>>
    /\ refresh = FALSE
    /\ openai_step = FALSE
    /\ saveDirExists = TRUE
    /\ dayDirExists = TRUE
    /\ messagesFile = Absent
    /\ filteredFile = Absent
    /\ kpszsu \in Histories
    /\ wpc = "idle"
    /\ wargs = <<>>

\* process_data(data, save_dir), run by a worker thread
InitProcessData ==
    /\ entry = "process_data"
    /\ pc = "p_caller"
    /\ argv = NoArgv
    /\ environ = NoEnv
    /\ all_channels = <<>>
    /\ refresh = FALSE
    /\ openai_step = TRUE
    /\ InitFS
    /\ kpszsu = <<>>
    /\ wpc = "queued"
    /\ \E r \in OldRecords : wargs = <<r, SaveDir>>

Init ==
    /\ InitScript \/ InitMain \/ InitFetchSummary \/ InitProcessData
    /\ InitCommon

----------------------------------------------------------------------------
(* The script, lines 185-230. *)

\* line 187: argparse rejects an option it does not define (-p/--prompt is
\* not defined by lines 145-180) with exit status 2
ParseArgs ==
    /\ pc = "s_parse"
    /\ IF argv.prompt_flag
       THEN pc' = "s_exit" /\ err' = "SystemExit2"
       ELSE pc' = "s_creds" /\ err' = err
    /\ UNCHANGED <<entry, scriptVars, mainArgs, fsVars, histVars, kpszsu,
                   localVars, netVars, workerVars>>

\* lines 190-192
GetCredentials ==
    /\ pc = "s_creds"
    /\ creds' = [api_id |-> GetCredential(argv.api_id, environ.TELEGRAM_API_ID),
                 api_hash |-> GetCredential(argv.api_hash, environ.TELEGRAM_API_HASH),
                 openai_key |-> GetCredential(argv.openai_key, environ.OPENAI_API_KEY)]
    /\ pc' = "s_ensure"
    /\ UNCHANGED <<entry, err, argv, environ, openai_api_key, clientCreated,
                   mainArgs, fsVars, histVars, kpszsu, localVars, netVars,
                   workerVars>>

\* lines 195-201
EnsureCredentials ==
    /\ pc = "s_ensure"
    /\ IF CredentialsMissing(creds)
       THEN /\ pc' = "s_raised"
            /\ err' = "ValueError"
            /\ UNCHANGED openai_api_key
       ELSE /\ pc' = "s_channels"
            /\ openai_api_key' = creds.openai_key
            /\ UNCHANGED err
    /\ UNCHANGED <<entry, argv, environ, creds, clientCreated, mainArgs,
                   fsVars, histVars, kpszsu, localVars, netVars, workerVars>>

\* lines 204-217
CombineChannels ==
    /\ pc = "s_channels"
    /\ all_channels' = default_channels \o argv.add_channels
    /\ pc' = "s_client"
    /\ UNCHANGED <<entry, err, scriptVars, refresh, openai_step, fsVars,
                   histVars, kpszsu, localVars, netVars, workerVars>>

\* line 220
CreateClient ==
    /\ pc = "s_client"
    /\ clientCreated' = TRUE
    /\ pc' = "s_run"
    /\ UNCHANGED <<entry, err, argv, environ, creds, openai_api_key, mainArgs,
                   fsVars, histVars, kpszsu, localVars, netVars, workerVars>>

\* lines 221-230: the arguments of main(...) are evaluated first, and
\* args.prompt is read from the namespace
RunMain ==
    /\ pc = "s_run"
    /\ IF "prompt" \in Namespace
       THEN /\ pc' = "m_start"
            /\ refresh' = argv.refresh
            /\ openai_step' = argv.openai_processing
            /\ UNCHANGED err
       ELSE /\ pc' = "s_raised"
            /\ err' = "AttributeError"
            /\ UNCHANGED <<refresh, openai_step>>
    /\ UNCHANGED <<entry, scriptVars, all_channels, fsVars, histVars, kpszsu,
                   localVars, netVars, workerVars>>

----------------------------------------------------------------------------
(* main, lines 100-136.  since_time (lines 104-106) only selects what     *)
(* iter_messages yields, which is an input here.                           *)

\* lines 108-109: os.mkdir needs the parent directory
EnsureDayDir ==
    /\ pc = "m_start"
    /\ IF dayDirExists
       THEN pc' = "m_branch" /\ UNCHANGED <<err, dayDirExists>>
       ELSE IF saveDirExists
       THEN pc' = "m_branch" /\ dayDirExists' = TRUE /\ UNCHANGED err
       ELSE pc' = "m_raised" /\ err' = "FileNotFoundError"
            /\ UNCHANGED dayDirExists
    /\ UNCHANGED <<entry, scriptVars, mainArgs, saveDirExists, messagesFile,
                   filteredFile, histVars, kpszsu, localVars, netVars,
                   workerVars>>

\* line 112
Branch ==
    /\ pc = "m_branch"
    /\ pc' = IF NeedFetch THEN "m_enter" ELSE "m_load"
    /\ UNCHANGED <<entry, err, scriptVars, mainArgs, fsVars, histVars, kpszsu,
                   localVars, netVars, workerVars>>

\* line 113: `async with client` connects
EnterClient ==
    /\ pc = "m_enter"
    /\ sessionOpened' = TRUE
    /\ \/ sessionOpen' = TRUE /\ pc' = "m_summary" /\ UNCHANGED err
       \/ pc' = "m_raised" /\ err' = "CollaboratorError"
          /\ UNCHANGED sessionOpen
    /\ UNCHANGED <<entry, scriptVars, mainArgs, fsVars, histVars, kpszsu,
                   localVars, inflight, callLog, fetched, workerVars>>

\* line 114: the call is made and awaited
CallSummary ==
    /\ pc = "m_summary"
    /\ callLog' = Append(callLog, <<"fetch_summary_message">>)
    /\ inflight' = inflight + 1
    /\ pc' = "m_summary_wait"
    /\ UNCHANGED <<entry, err, scriptVars, mainArgs, fsVars, histVars, kpszsu,
                   localVars, sessionOpen, sessionOpened, fetched, workerVars>>

\* lines 114-117: the call returns
ReturnSummary ==
    /\ pc = "m_summary_wait"
    /\ summary_message' = fetch_summary_message(kpszsu)
    /\ channels_data' = <<>>
    /\ idx' = 1
    /\ inflight' = inflight - 1
    /\ pc' = "m_loop"
    /\ UNCHANGED <<entry, err, scriptVars, mainArgs, fsVars, histVars, kpszsu,
                   data, sessionOpen, sessionOpened, callLog, fetched,
                   workerVars>>

\* line 114: the collaborator raises; the exception leaves `async with`
\* (which disconnects) and main
RaiseSummary ==
    /\ pc = "m_summary_wait"
    /\ inflight' = inflight - 1
    /\ sessionOpen' = FALSE
    /\ pc' = "m_raised"
    /\ err' = "CollaboratorError"
    /\ UNCHANGED <<entry, scriptVars, mainArgs, fsVars, histVars, kpszsu,
                   localVars, sessionOpened, callLog, fetched, workerVars>>

\* lines 118-119: the next channel's call is made and awaited
CallFetch ==
    /\ pc = "m_loop"
    /\ idx <= Len(all_channels)
    /\ callLog' = Append(callLog, <<"fetch_messages", all_channels[idx]>>)
    /\ inflight' = inflight + 1
    /\ pc' = "m_fetch_wait"
    /\ UNCHANGED <<entry, err, scriptVars, mainArgs, fsVars, histVars, kpszsu,
                   localVars, sessionOpen, sessionOpened, fetched, workerVars>>

\* lines 119-120 with the record saved after every channel
ReturnFetchSavingEachChannel ==
    /\ pc = "m_fetch_wait"
    /\ \E raw \in RawResults :
          LET messages == fetch_messages(raw)
          IN  /\ channels_data' =
                     DictSet(channels_data, all_channels[idx], messages)
              /\ fetched' = Append(fetched, messages)
    /\ messagesFile' =
           json_dump([summary |-> summary_message, channels |-> channels_data'])
    /\ idx' = idx + 1
    /\ inflight' = inflight - 1
    /\ pc' = "m_loop"
    /\ UNCHANGED <<entry, err, scriptVars, mainArgs, saveDirExists,
                   dayDirExists, filteredFile, histVars, kpszsu,
                   summary_message, data, sessionOpen, sessionOpened, callLog,
                   workerVars>>

\* lines 119-120: the call returns
ReturnFetch ==
    /\ pc = "m_fetch_wait"
    /\ \E raw \in RawResults :
          LET messages == fetch_messages(raw)
          IN  /\ channels_data' =
                     DictSet(channels_data, all_channels[idx], messages)
              /\ fetched' = Append(fetched, messages)
    /\ idx' = idx + 1
    /\ inflight' = inflight - 1
    /\ pc' = "m_loop"
    /\ UNCHANGED <<entry, err, scriptVars, mainArgs, fsVars, histVars, kpszsu,
                   summary_message, data, sessionOpen, sessionOpened, callLog,
                   workerVars>>

\* line 119: the collaborator raises
RaiseFetch ==
    /\ pc = "m_fetch_wait"
    /\ inflight' = inflight - 1
    /\ sessionOpen' = FALSE
    /\ pc' = "m_raised"
    /\ err' = "CollaboratorError"
    /\ UNCHANGED <<entry, scriptVars, mainArgs, fsVars, histVars, kpszsu,
                   localVars, sessionOpened, callLog, fetched, workerVars>>

\* lines 123-129, after the loop; then `async with` disconnects
WriteRecord ==
    /\ pc = "m_loop"
    /\ idx > Len(all_channels)
    /\ data' = [summary |-> summary_message, channels |-> channels_data]
    /\ messagesFile' = json_dump(data')
    /\ sessionOpen' = FALSE
    /\ pc' = "m_report"
    /\ UNCHANGED <<entry, err, scriptVars, mainArgs, saveDirExists,
                   dayDirExists, filteredFile, histVars, kpszsu,
                   summary_message, channels_data, idx, sessionOpened,
                   inflight, callLog, fetched, workerVars>>

\* lines 131-132
LoadRecord ==
    /\ pc = "m_load"
    /\ data' = json_load(messagesFile)
    /\ pc' = "m_report"
    /\ UNCHANGED <<entry, err, scriptVars, mainArgs, fsVars, histVars, kpszsu,
                   summary_message, channels_data, idx, netVars, workerVars>>

\* lines 135-136: run_in_executor queues process_data(data) and returns a
\* future nobody awaits; main returns
ReportStep ==
    /\ pc = "m_report"
    /\ IF openai_step
       THEN wpc' = "queued" /\ wargs' = <<data>>
       ELSE UNCHANGED <<wpc, wargs>>
    /\ pc' = "m_done"
    /\ UNCHANGED <<entry, err, scriptVars, mainArgs, fsVars, histVars, kpszsu,
                   localVars, netVars, werr, lmLog>>

----------------------------------------------------------------------------
(* The executor's worker thread and process_data, lines 49-97. *)

\* the worker calls process_data(*wargs); a call with the wrong number of
\* positional arguments raises TypeError, which the future keeps
ExecutorRun ==
    /\ wpc = "queued"
    /\ IF Len(wargs) = ProcessDataArity
       THEN wpc' = "w_check" /\ UNCHANGED werr
       ELSE wpc' = "w_raised" /\ werr' = "TypeError"
    /\ UNCHANGED <<entry, pc, err, scriptVars, mainArgs, fsVars, histVars,
                   kpszsu, localVars, netVars, wargs, lmLog>>

\* lines 50-72
CheckFiltered ==
    /\ wpc = "w_check"
    /\ wpc' = IF filteredFile = Absent THEN "w_request" ELSE "w_done"
    /\ UNCHANGED <<entry, pc, err, scriptVars, mainArgs, fsVars, histVars,
                   kpszsu, localVars, netVars, wargs, werr, lmLog>>

\* lines 74-91: the request carries json.dumps(data)
RequestFiltering ==
    /\ wpc = "w_request"
    /\ lmLog' = Append(lmLog, json_dump(wargs[1]))
    /\ wpc' = "w_wait"
    /\ UNCHANGED <<entry, pc, err, scriptVars, mainArgs, fsVars, histVars,
                   kpszsu, localVars, netVars, wargs, werr>>

\* lines 93-97: the answer is written; open(..., "w") needs the directory
SaveFiltered ==
    /\ wpc = "w_wait"
    /\ \E r \in Responses :
          IF dayDirExists
          THEN filteredFile' = json_dump(r) /\ wpc' = "w_done"
               /\ UNCHANGED werr
          ELSE wpc' = "w_raised" /\ werr' = "FileNotFoundError"
               /\ UNCHANGED filteredFile
    /\ UNCHANGED <<entry, pc, err, scriptVars, mainArgs, saveDirExists,
                   dayDirExists, messagesFile, histVars, kpszsu, localVars,
                   netVars, wargs, lmLog>>

\* line 74: the language-model call raises
RaiseFiltering ==
    /\ wpc = "w_wait"
    /\ wpc' = "w_raised"
    /\ werr' = "CollaboratorError"
    /\ UNCHANGED <<entry, pc, err, scriptVars, mainArgs, fsVars, histVars,
                   kpszsu, localVars, netVars, wargs, lmLog>>

----------------------------------------------------------------------------
(* fetch_summary_message called on its own, lines 32-46. *)

CallFetchSummaryMessage ==
    /\ pc = "f_call"
    /\ summary_message' = fetch_summary_message(kpszsu)
    /\ callLog' = Append(callLog, <<"fetch_summary_message">>)
    /\ pc' = "f_done"
    /\ UNCHANGED <<entry, err, scriptVars, mainArgs, fsVars, histVars, kpszsu,
                   channels_data, idx, data, sessionOpen, sessionOpened,
                   inflight, fetched, workerVars>>

----------------------------------------------------------------------------

Next ==
    \/ ParseArgs
    \/ GetCredentials
    \/ EnsureCredentials
    \/ CombineChannels
    \/ CreateClient
    \/ RunMain
    \/ EnsureDayDir
    \/ Branch
    \/ EnterClient
    \/ CallSummary
    \/ ReturnSummary
    \/ RaiseSummary
    \/ CallFetch
    \/ ReturnFetch
    \/ RaiseFetch
    \/ WriteRecord
    \/ LoadRecord
    \/ ReportStep
    \/ ExecutorRun
    \/ CheckFiltered
    \/ RequestFiltering
    \/ SaveFiltered
    \/ RaiseFiltering
    \/ CallFetchSummaryMessage

Spec == Init /\ [][Next]_vars

----------------------------------------------------------------------------
(* Properties. *)

MainPcs ==
    {"m_start", "m_branch", "m_enter", "m_summary", "m_summary_wait",
     "m_loop", "m_fetch_wait", "m_load", "m_report", "m_done", "m_raised"}

\* main took the fetch branch and has written messages.json
FetchBranchWritten ==
    /\ pc \in {"m_report", "m_done"}
    /\ (messagesFile0 = Absent \/ refresh)

\* the elements of L without repetitions, in the order of first occurrence
RECURSIVE FirstOccurrences(_)
FirstOccurrences(L) ==
    IF L = <<>> THEN <<>>
    ELSE LET front == FirstOccurrences(SubSeq(L, 1, Len(L) - 1))
             last == L[Len(L)]
         IN  IF \E i \in 1..Len(front) : front[i] = last
             THEN front ELSE Append(front, last)

\* the position of the last occurrence of k in L
LastIndex(L, k) ==
    CHOOSE i \in 1..Len(L) : L[i] = k /\ \A j \in (i + 1)..Len(L) : L[j] # k

\* the calls of a full fetch over the channel list L
ExpectedCalls(L) ==
    <<<<"fetch_summary_message">>>>
        \o [i \in 1..Len(L) |-> <<"fetch_messages", L[i]>>]

IsPrefix(a, b) == Len(a) <= Len(b) /\ a = SubSeq(b, 1, Len(a))

\* C1, as stated: after the fetch branch, the keys of `channels` in
\* messages.json are the elements of the channel list, one entry per list
\* position, in order (also when an identifier is repeated).
C1_KeysEqualList ==
    FetchBranchWritten =>
        DictKeys(json_load(messagesFile).channels) = all_channels

\* C1, amended: after the fetch branch, `channels` in messages.json has one
\* entry per distinct identifier of the channel list, in order of first
\* occurrence (so exactly the list, in order, when nothing is repeated), and
\* each entry holds what the last fetch of that identifier returned, an empty
\* sequence included.
C1_KeysAreDistinctChannelsInOrder ==
    FetchBranchWritten =>
        LET channels == json_load(messagesFile).channels
        IN  /\ DictKeys(channels) = FirstOccurrences(all_channels)
            /\ Len(channels) = Cardinality({all_channels[i] : i \in 1..Len(all_channels)})
            /\ Len(fetched) = Len(all_channels)
            /\ \A i \in 1..Len(channels) :
                  channels[i][2] = fetched[LastIndex(all_channels, channels[i][1])]

\* a run over a list with a repeated identifier, where one channel returned
\* nothing and another returned a message
C1_Witness ==
    /\ FetchBranchWritten
    /\ Len(all_channels) = 3
    /\ all_channels[1] = all_channels[3]
    /\ all_channels[1] # all_channels[2]
    /\ LET channels == json_load(messagesFile).channels
       IN  /\ \E i \in 1..Len(channels) : channels[i][2] = <<>>
           /\ \E i \in 1..Len(channels) : channels[i][2] # <<>>

\* C2: when today's messages.json exists at the start and refresh is false,
\* main makes no call to the Telegram client and opens no session, the record
\* it uses is the one on disk, messages.json is left as it was, and without
\* the report step no file or directory changes at all.
C2_CachedRunMakesNoCalls ==
    (entry = "main" /\ messagesFile0 # Absent /\ ~refresh) =>
        /\ callLog = <<>>
        /\ fetched = <<>>
        /\ inflight = 0
        /\ ~sessionOpened
        /\ ~sessionOpen
        /\ messagesFile = messagesFile0
        /\ pc \in {"m_report", "m_done"} => data = messagesFile0.json
        /\ ~openai_step =>
              filteredFile = filteredFile0 /\ dayDirExists /\ saveDirExists

\* a cached run without the report step that has returned
C2_Witness ==
    /\ entry = "main"
    /\ messagesFile0 # Absent
    /\ ~refresh
    /\ ~openai_step
    /\ pc = "m_done"
    /\ data = messagesFile0.json
    /\ data.summary # None

\* C3: with refresh true main never loads the record from disk; its calls
\* are fetch_summary_message once, then fetch_messages once per channel in
\* list order, never two at a time; and when the fetches are through,
\* messages.json holds the newly built record.
C3_RefreshAlwaysFetches ==
    (entry = "main" /\ refresh) =>
        /\ pc # "m_load"
        /\ inflight \in {0, 1}
        /\ inflight = 1 <=> pc \in {"m_summary_wait", "m_fetch_wait"}
        /\ IsPrefix(callLog, ExpectedCalls(all_channels))
        /\ pc \in {"m_report", "m_done"} =>
              /\ callLog = ExpectedCalls(all_channels)
              /\ data = [summary |-> summary_message, channels |-> channels_data]
              /\ messagesFile = json_dump(data)

\* a refreshing run over two or more channels that replaced an existing file
C3_Witness ==
    /\ entry = "main"
    /\ refresh
    /\ messagesFile0 # Absent
    /\ pc = "m_done"
    /\ Len(all_channels) >= 2
    /\ Len(callLog) = Len(all_channels) + 1
    /\ messagesFile # messagesFile0

\* the four clauses of the summary filter, stated on the characters
Qualifies(m) ==
    /\ m.text # NoneText
    /\ Len(m.text) > 0
    /\ m.photo = TRUE
    /\ \E i \in 0..(Len(m.text) - Len(Marker)) :
          \A k \in 1..Len(Marker) : LowerChar(m.text[i + k]) = Marker[k]
    /\ \E i \in 1..Len(m.text) : <<m.text[i]>> = Symbol

\* positions of the qualifying messages among the SummaryLimit newest
QualifyingInWindow ==
    {i \in 1..Len(kpszsu) : i <= SummaryLimit /\ Qualifies(kpszsu[i])}

SummaryReturned == pc \in {"f_done", "m_loop", "m_fetch_wait"}

\* C4: fetch_summary_message returns None when no message among the 200
\* newest of "kpszsu" has text, a photo, the marker (in any case) and the
\* symbol; otherwise it returns the newest such message of those 200 as
\* {id, date, text}.  A qualifying message older than the 200 newest is
\* never returned.
C4_SummaryIsNewestQualifying ==
    SummaryReturned =>
        IF QualifyingInWindow = {}
        THEN summary_message = None
        ELSE \E i \in QualifyingInWindow :
                /\ \A j \in QualifyingInWindow : i <= j /\ kpszsu[i].id >= kpszsu[j].id
                /\ summary_message =
                       [id |-> kpszsu[i].id,
                        date |-> <<kpszsu[i].date.day, kpszsu[i].date.month,
                                   kpszsu[i].date.year % 100, kpszsu[i].date.hour,
                                   kpszsu[i].date.minute, kpszsu[i].date.second>>,
                        text |-> kpszsu[i].text]

\* the 200th newest message qualifies by a capitalised marker and is
\* returned, although the 201st qualifies too
C4_Witness ==
    /\ pc = "f_done"
    /\ Len(kpszsu) = SummaryLimit + 1
    /\ QualifyingInWindow = {SummaryLimit}
    /\ Qualifies(kpszsu[SummaryLimit + 1])
    /\ kpszsu[SummaryLimit].text = T_title
    /\ summary_message # None
    /\ summary_message.id = kpszsu[SummaryLimit].id

\* the worker thread has finished, one way or the other
WorkerEnded == wpc \in {"w_done", "w_raised"}

\* C5: when main has run with openai_step true and no openai-filtered.json
\* for today, and the language model answered without error, then once main
\* and the worker it started have finished, openai-filtered.json exists and
\* holds the model's answer to that run's record.
C5_FilteredFileCreated ==
    (/\ entry = "main"
     /\ openai_step
     /\ filteredFile0 = Absent
     /\ pc = "m_done"
     /\ WorkerEnded
     /\ werr # "CollaboratorError") =>
        /\ filteredFile \in {json_dump(r) : r \in Responses}
        /\ lmLog = <<json_dump(data)>>

\* every required credential is given on the command line or in the
\* environment
CredentialsSupplied ==
    /\ TruthyStr(argv.api_id) \/ TruthyStr(environ.TELEGRAM_API_ID)
    /\ TruthyStr(argv.api_hash) \/ TruthyStr(environ.TELEGRAM_API_HASH)
    /\ TruthyStr(argv.openai_key) \/ TruthyStr(environ.OPENAI_API_KEY)

\* the script has ended
ScriptEnded == entry = "script" /\ pc \in {"s_exit", "s_raised", "m_done", "m_raised"}

\* C6: a run of the script with all credentials and only options that
\* parse_args defines, in which no collaborator fails, ends normally with
\* today's messages.json on disk.
C6_ScriptExitsNormally ==
    (ScriptEnded /\ CredentialsSupplied /\ ~argv.prompt_flag
        /\ err # "CollaboratorError" /\ werr # "CollaboratorError") =>
        /\ pc = "m_done"
        /\ err = NoErr
        /\ messagesFile # Absent

\* a required credential is given neither on the command line nor in the
\* environment
SomeCredentialAbsent ==
    \/ argv.api_id = NoneStr /\ environ.TELEGRAM_API_ID = NoneStr
    \/ argv.api_hash = NoneStr /\ environ.TELEGRAM_API_HASH = NoneStr
    \/ argv.openai_key = NoneStr /\ environ.OPENAI_API_KEY = NoneStr

\* C7: when a required credential is given neither on the command line nor
\* in the environment, the script never gets past the check of line 195: it
\* ends in ValueError (or earlier, in argparse's exit for an undefined
\* option), the Telegram client is never created, no call is made and no
\* file is written.
C7_MissingCredentialIsFatal ==
    (entry = "script" /\ SomeCredentialAbsent) =>
        /\ pc \in {"s_parse", "s_creds", "s_ensure", "s_exit", "s_raised"}
        /\ pc = "s_raised" => err = "ValueError"
        /\ pc = "s_exit" => (err = "SystemExit2" /\ argv.prompt_flag)
        /\ ~clientCreated
        /\ openai_api_key = NoneStr
        /\ callLog = <<>> /\ lmLog = <<>> /\ ~sessionOpened /\ inflight = 0
        /\ messagesFile = messagesFile0 /\ filteredFile = filteredFile0

\* only the OpenAI key is missing, and the script ended in ValueError
C7_Witness ==
    /\ entry = "script"
    /\ pc = "s_raised"
    /\ err = "ValueError"
    /\ argv.openai_key = NoneStr /\ environ.OPENAI_API_KEY = NoneStr
    /\ TruthyStr(creds.api_id) /\ TruthyStr(creds.api_hash)
    /\ ~clientCreated

\* C8: while main fetches, and after a fetch has raised, messages.json is as
\* it was when main was called: the file is written only after the last
\* fetch has returned.
C8_NoPartialRecord ==
    /\ (entry = "main" /\ pc \in {"m_enter", "m_summary", "m_summary_wait",
                                   "m_fetch_wait", "m_raised"}) =>
           messagesFile = messagesFile0
    /\ (entry = "main" /\ pc = "m_loop" /\ idx <= Len(all_channels)) =>
           messagesFile = messagesFile0
    /\ (entry = "main" /\ messagesFile # messagesFile0) =>
           (callLog = ExpectedCalls(all_channels) /\ inflight = 0)

\* a refreshing run that raised in a fetch_messages call after an earlier
\* channel had returned a message; the old file is still there
C8_Witness ==
    /\ entry = "main"
    /\ pc = "m_raised"
    /\ err = "CollaboratorError"
    /\ refresh
    /\ messagesFile0 # Absent
    /\ messagesFile = messagesFile0
    /\ Len(callLog) >= 3
    /\ \E i \in 1..Len(channels_data) : channels_data[i][2] # <<>>

\* C9: whatever the file system holds when main is called, once main is past
\* lines 108-109 the directory <save_dir>/<today> exists and no error was
\* raised over it.
C9_DayDirEnsured ==
    (entry = "main" /\ pc # "m_start") =>
        (dayDirExists /\ err # "FileNotFoundError")

\* C10: when the report step is on and process_data raises, main does not
\* complete normally.
C10_ReportFailureAbortsMain ==
    (entry = "main" /\ openai_step /\ wpc = "w_raised") => pc # "m_done"

====
